---- MODULE Spec2Model ----
(***************************************************************************)
(* Model of streamlit_app.py: the stock-analysis report script.            *)
(*                                                                         *)
(* Strings are sequences of one-character strings, so that strip, lower    *)
(* and the four regular expressions of fix_sku_and_name are computed, not  *)
(* assumed.  A JSON value read from the API is a record [tag, s]: tag      *)
(* "none" is null (None / NaN once in a DataFrame), "int" a number whose   *)
(* str() is s, "str" the string s.                                         *)
(***************************************************************************)
EXTENDS Integers, Sequences, FiniteSets, TLC

VARIABLES
    orders,        \* the ERP's sales orders: order id -> document
    stock,         \* the ERP's product catalog: the "stock" of SKU "A", or -1 when absent
    now,           \* line 37: the instant of the current script run, in days
    filter_by_so,  \* line 29: the selectbox value of the current run
    cache,         \* st.cache_data: one entry per cached function (and per order)
    status,        \* "idle" before the first run, "ok" or "error" after a run
    df,            \* the final table of the last run (a sequence of rows)
    used,          \* the 'now' each date window of the last run was derived from
    nin,           \* fix_sku_and_name alone: the line item given
    nrec,          \* fix_sku_and_name alone: the record after ncount applications
    nfirst,        \* fix_sku_and_name alone: the record after the first application
    ncount         \* fix_sku_and_name alone: number of applications so far

vars == <<orders, stock, now, filter_by_so, cache, status, df, used,
          nin, nrec, nfirst, ncount>>

pipeVars == <<orders, stock, now, filter_by_so, cache, status, df, used>>
normVars == <<nin, nrec, nfirst, ncount>>

----------------------------------------------------------------------------
(* Strings *)

Str(s) == [tag |-> "str", s |-> s]
NoneVal == [tag |-> "none", s |-> <<>>]
IntVal(s) == [tag |-> "int", s |-> s]

\* str(x) of Python: None prints as "None", a number as its digits.
PyStr(v) == IF v.tag = "none" THEN <<"N", "o", "n", "e">> ELSE v.s

IsSpace(c) == c = " "
IsDigit(c) == c \in {"0", "1", "5"}

LowerChar(c) ==
    CASE c = "N" -> "n"
      [] c = "A" -> "a"
      [] c = "B" -> "b"
      [] c = "S" -> "s"
      [] c = "K" -> "k"
      [] c = "U" -> "u"
      [] c = "R" -> "r"
      [] c = "W" -> "w"
      [] OTHER -> c

Lower(s) == [i \in 1..Len(s) |-> LowerChar(s[i])]

Drop(s, n) == SubSeq(s, n + 1, Len(s))
Take(s, n) == SubSeq(s, 1, n)

\* Length of the longest prefix of s whose characters all satisfy the class.
RECURSIVE DigitPrefixLen(_)
DigitPrefixLen(s) ==
    IF s # <<>> /\ IsDigit(Head(s)) THEN 1 + DigitPrefixLen(Tail(s)) ELSE 0

RECURSIVE SpacePrefixLen(_)
SpacePrefixLen(s) ==
    IF s # <<>> /\ IsSpace(Head(s)) THEN 1 + SpacePrefixLen(Tail(s)) ELSE 0

RECURSIVE SpaceSuffixLen(_)
SpaceSuffixLen(s) ==
    IF s # <<>> /\ IsSpace(s[Len(s)])
    THEN 1 + SpaceSuffixLen(Take(s, Len(s) - 1))
    ELSE 0

\* str.strip()
Strip(s) ==
    LET t == Drop(s, SpacePrefixLen(s))
    IN  Take(t, Len(t) - SpaceSuffixLen(t))

HasPrefix(s, p) == Len(s) >= Len(p) /\ Take(s, Len(p)) = p

NoMatch == [ok |-> FALSE, g1 |-> <<>>, g2 |-> <<>>]

\* (\d+)\s+(.*) at the start of s: the digits are the whole digit run (a
\* shorter run would have to be followed by a space), \s+ takes every space.
MatchDigitsSpace(s) ==
    LET d  == DigitPrefixLen(s)
        r  == Drop(s, d)
        sp == SpacePrefixLen(r)
    IN  IF d >= 1 /\ sp >= 1
        THEN [ok |-> TRUE, g1 |-> Take(s, d), g2 |-> Drop(r, sp)]
        ELSE NoMatch

\* (\d+)-\s*(.*) at the start of s
MatchDigitsDash(s) ==
    LET d == DigitPrefixLen(s)
        r == Drop(s, d)
    IN  IF d >= 1 /\ r # <<>> /\ Head(r) = "-"
        THEN [ok |-> TRUE, g1 |-> Take(s, d),
              g2 |-> Drop(Tail(r), SpacePrefixLen(Tail(r)))]
        ELSE NoMatch

\* <literal>\s*(\d+)\s+(.*) at the start of s
MatchLiteralDigitsSpace(lit, s) ==
    IF HasPrefix(s, lit)
    THEN LET r == Drop(s, Len(lit))
         IN  MatchDigitsSpace(Drop(r, SpacePrefixLen(r)))
    ELSE NoMatch

\* re.match(patterns[i], name), lines 47-52
MatchPattern(i, name) ==
    CASE i = 1 -> MatchDigitsSpace(name)
      [] i = 2 -> MatchLiteralDigitsSpace(<<"S", "K", "U">>, name)
      [] i = 3 -> MatchDigitsDash(name)
      [] i = 4 -> MatchLiteralDigitsSpace(<<"R", "e", "f", ":">>, name)

NumPatterns == 4

\* Line 46: the condition that sends a row to the pattern loop.
IsPlaceholderSku(sku) ==
    sku = <<"0">> \/ Lower(sku) \in {<<"n", "o", "n", "e">>, <<"n", "a", "n">>}

\* Lines 51-56: the first pattern that matches, or 0.
FirstMatch(name) ==
    IF \E i \in 1..NumPatterns : MatchPattern(i, name).ok
    THEN CHOOSE i \in 1..NumPatterns :
            /\ MatchPattern(i, name).ok
            /\ \A j \in 1..(i - 1) : ~MatchPattern(j, name).ok
    ELSE 0

\* fix_sku_and_name without line 54: a match rewrites the name and leaves
\* the SKU as it was.
fix_sku_and_name_NoSkuAssign(row) ==
    LET sku  == Strip(PyStr(row.SKU))
        name == Strip(PyStr(row.Name))
    IN  IF IsPlaceholderSku(sku)
        THEN LET i == FirstMatch(name)
             IN  IF i = 0
                 THEN row
                 ELSE [row EXCEPT !.Name = Str(Strip(MatchPattern(i, name).g2))]
        ELSE [row EXCEPT !.SKU = Str(sku), !.Name = Str(name)]

\* Lines 43-60.  A row is [SKU, Name] of JSON values; the other columns of
\* the row are not touched.
fix_sku_and_name(row) ==
    LET sku  == Strip(PyStr(row.SKU))
        name == Strip(PyStr(row.Name))
    IN  IF IsPlaceholderSku(sku)
        THEN LET i == FirstMatch(name)
             IN  IF i = 0
                 THEN row
                 ELSE [row EXCEPT !.SKU = Str(MatchPattern(i, name).g1),
                                  !.Name = Str(Strip(MatchPattern(i, name).g2))]
        ELSE [row EXCEPT !.SKU = Str(sku), !.Name = Str(name)]

----------------------------------------------------------------------------
(* Ordering of strings, as Python compares str values *)

Ascii == <<" ", "-", "0", "1", "5", ":", "A", "B", "K", "N", "R", "S", "U", "W",
           "a", "e", "f", "g", "h", "i", "k", "n", "o", "p", "r", "s", "u", "w">>

Rank(c) == CHOOSE i \in 1..Len(Ascii) : Ascii[i] = c

RECURSIVE LexLess(_, _)
LexLess(a, b) ==
    IF b = <<>> THEN FALSE
    ELSE IF a = <<>> THEN TRUE
    ELSE IF Head(a) = Head(b) THEN LexLess(Tail(a), Tail(b))
    ELSE Rank(Head(a)) < Rank(Head(b))

RECURSIVE SumSeq(_)
SumSeq(s) == IF s = <<>> THEN 0 ELSE Head(s) + SumSeq(Tail(s))

RECURSIVE Flatten(_)
Flatten(ss) == IF ss = <<>> THEN <<>> ELSE Head(ss) \o Flatten(Tail(ss))

----------------------------------------------------------------------------
(* Time.  An instant is a day number; months are uniform, so that          *)
(* relativedelta(months = m) is m * DaysPerMonth days.                     *)

DaysPerMonth == 30
SecondsPerDay == 24 * 60 * 60

MonthOf(t) == t \div DaysPerMonth

\* t - relativedelta(months = m)
MinusMonths(t, m) == t - m * DaysPerMonth

WindowMonths == 6

\* Lines 38-40: the range of the sales-order fetch of a run at instant t.
start_ts(t) == MinusMonths(t, WindowMonths)
end_ts(t) == t

\* Line 174: the first month kept for 'Active Months'.
six_months_ago_date(t) == MonthOf(MinusMonths(t, WindowMonths))

NumBins == 6

\* Line 208: the six month bins of a run at instant t, oldest first.
month_bins(t) == [j \in 1..NumBins |-> MonthOf(MinusMonths(t, NumBins - j))]

\* Line 212: the weights, times 8.
Weights8 == <<1, 1, 1, 1, 2, 2>>

WeightScale == 8

\* weight_map.get(month), times 8; 0 stands for a month that is no bin.
Weight8Of(t, month) ==
    IF \E j \in 1..NumBins : month_bins(t)[j] = month
    THEN Weights8[CHOOSE j \in 1..NumBins : month_bins(t)[j] = month]
    ELSE 0

----------------------------------------------------------------------------
(* Rounding.  A value rounded to 2 decimals is kept as its hundredths.     *)

\* numpy's round(x, 2) of the exact value num / den: rint(x * 100), which
\* rounds a tie to the even neighbour.
RoundHalfEven100(num, den) ==
    LET q == (num * 100) \div den
        r == (num * 100) % den
    IN  IF 2 * r < den THEN q
        ELSE IF 2 * r > den THEN q + 1
        ELSE IF q % 2 = 0 THEN q ELSE q + 1

\* Line 185: (units / 6).round(2)
MediaLineal100(units) == RoundHalfEven100(units, 6)

\* The weighted sum rounded half up instead of half to even.
MediaExponencialHalfUp100(w8) == (w8 * 100 * 2 + WeightScale) \div (2 * WeightScale)

\* Line 222: the weighted sum .round(2); w8 is the sum times 8.
MediaExponencial100(w8) == RoundHalfEven100(w8, WeightScale)

\* Line 224: ((lineal + exponencial) / 2).round(2).  The two operands are
\* binary floats near a hundredth, so when their sum of hundredths is odd the
\* half lies within float error of a tie and either neighbour can come out:
\* the value is the set of the results the arithmetic can produce.
Media100(lin, expo) ==
    IF (lin + expo) % 2 = 0
    THEN {(lin + expo) \div 2}
    ELSE {(lin + expo - 1) \div 2, (lin + expo + 1) \div 2}

----------------------------------------------------------------------------
(* The ERP behind the API: what the fetches of a run can return *)

OrderIds == {"o1", "o2"}

\* The order in which the API lists the sales orders (iterrows).
OrderSeq == <<"o1", "o2">>

SkuA == <<"A">>

\* GET /documents/salesorder?starttmp=..&endtmp=..: the orders dated in the range.
OrdersInRange(from, to) ==
    {o \in OrderIds : from <= orders[o].date /\ orders[o].date <= to}

\* 'pending' of an order line: all of it until the order is shipped.
PendingOf(o) == IF orders[o].shipped THEN 0 ELSE orders[o].units

\* GET /documents/salesorder/{id}/shippeditems, lines 91-100: one row per item.
ShippedItemsOf(o) ==
    << [SKU |-> orders[o].sku,
        Name |-> orders[o].name,
        Units_Ordered |-> orders[o].units,
        Units_Shipped |-> orders[o].units - PendingOf(o),
        Units_Pending |-> PendingOf(o)] >>

\* Lines 86-102: the rows of one order, or [] when the request fails.
get_shipped_items(o, fail) == IF o \in fail THEN <<>> ELSE ShippedItemsOf(o)

----------------------------------------------------------------------------
(* st.cache_data *)

ttl == 600000

NoEntry == 0 - 1

\* An entry is [created, val]; created = NoEntry when the function has no entry.
EmptyCache ==
    [products   |-> [created |-> NoEntry, val |-> -1],
     salesorders |-> [created |-> NoEntry, val |-> {}],
     shipped    |-> [o \in OrderIds |-> [created |-> NoEntry, val |-> <<>>]],
     process    |-> [created |-> NoEntry, val |-> {}, anchor |-> NoEntry],
     full       |-> [created |-> NoEntry, val |-> {}],
     weighted   |-> [created |-> NoEntry, val |-> {}, anchor |-> NoEntry]]

\* An entry is served while younger than ttl seconds.
Valid(e, t) == e.created # NoEntry /\ (t - e.created) * SecondsPerDay < ttl

----------------------------------------------------------------------------
(* process_data, lines 105-144 *)

\* Line 120: ~df["SKU"].isin(["", "0", None, np.nan])
InDropList(v) == v.tag = "none" \/ (v.tag = "str" /\ v.s \in {<<>>, <<"0">>})

Shipping == <<"s", "h", "i", "p", "p", "i", "n", "g">>

\* Line 121: df["Product Name"].str.lower().eq("shipping")
IsShippingName(v) == v.tag = "str" /\ Lower(v.s) = Shipping

\* Lines 119-121: the rows that reach the groupby.
CleanRows(shipped_rows) ==
    LET fixed == [i \in 1..Len(shipped_rows) |-> fix_sku_and_name(shipped_rows[i])]
        kept  == SelectSeq(fixed, LAMBDA r : ~InDropList(r.SKU))
    IN  SelectSeq(kept, LAMBDA r : ~IsShippingName(r.Name))

\* Line 126: x.mode().iloc[0] if not x.mode().empty else x.iloc[0].  mode()
\* skips nulls and returns the most frequent values sorted ascending.
ModeName(names) ==
    LET real   == {names[i] : i \in {j \in 1..Len(names) : names[j].tag # "none"}}
        Count(v) == Cardinality({i \in 1..Len(names) : names[i] = v})
        modes  == {v \in real : \A w \in real : Count(w) <= Count(v)}
    IN  IF modes = {}
        THEN names[1]
        ELSE CHOOSE v \in modes : \A w \in modes : w = v \/ LexLess(v.s, w.s)

\* Lines 138-141: df["SKU"].map(stock_map).fillna(0).astype(int)
StockReal(sku, stockv) == IF sku = SkuA /\ stockv >= 0 THEN stockv ELSE 0

\* Available stock clamped at zero.
StockDisponibleClamped(real, reservado) ==
    IF real - reservado < 0 THEN 0 ELSE real - reservado

\* Line 142
StockDisponible(real, reservado) == real - reservado

\* The column that line 132 renames to 'Units (Last 6 Months)'.
UnitsColumn(r) == r.Units_Ordered

\* The column that line 133 renames to 'Stock Reservado'.
ReservadoColumn(r) == r.Units_Pending

\* Lines 123-142: one row per SKU of the cleaned rows.
GroupBySku(rows, stockv) ==
    LET keys == {rows[i].SKU : i \in 1..Len(rows)}
        Of(k) == SelectSeq(rows, LAMBDA r : r.SKU = k)
        Col(k, F(_)) == SumSeq([i \in 1..Len(Of(k)) |-> F(Of(k)[i])])
    IN  {[SKU       |-> PyStr(k),
          Name      |-> ModeName([i \in 1..Len(Of(k)) |-> Of(k)[i].Name]),
          Units     |-> Col(k, UnitsColumn),
          Shipped   |-> Col(k, LAMBDA r : r.Units_Shipped),
          Reservado |-> Col(k, ReservadoColumn),
          Real      |-> StockReal(PyStr(k), stockv),
          Disponible |->
              StockDisponible(StockReal(PyStr(k), stockv), Col(k, ReservadoColumn))]
         : k \in keys}

\* Lines 109-112
FilterSO(raw, filt) == IF filt = "Si" THEN {o \in raw : orders[o].so} ELSE raw

\* The cache after a call of a cached fetch at instant t: the entry is kept
\* while valid and otherwise replaced by a fresh result.
WithProducts(c, t) ==
    IF Valid(c.products, t) THEN c
    ELSE [c EXCEPT !.products = [created |-> t, val |-> stock]]

WithSalesorders(c, t) ==
    IF Valid(c.salesorders, t) THEN c
    ELSE [c EXCEPT !.salesorders =
             [created |-> t, val |-> OrdersInRange(start_ts(t), end_ts(t))]]

WithShipped(c, t, sales, fail) ==
    [c EXCEPT !.shipped =
        [o \in OrderIds |->
            IF o \in sales /\ ~Valid(c.shipped[o], t)
            THEN [created |-> t, val |-> get_shipped_items(o, fail)]
            ELSE c.shipped[o]]]

\* Lines 114-116: the rows of the orders of sales_df, in the API's order.
ShippedRows(c, sales) ==
    Flatten([i \in 1..Len(OrderSeq) |->
                IF OrderSeq[i] \in sales THEN c.shipped[OrderSeq[i]].val ELSE <<>>])

\* The single element of a one-element set.  { F(x) : x \in {e} } evaluates e
\* once however often F uses x.
Only(S) == CHOOSE x \in S : TRUE

\* Lines 118-144 on the rows collected by lines 114-116; c is the cache after
\* the fetches.  Line 120 raises KeyError 'SKU' on the column-less frame that
\* an empty shipped_rows gives: then ok is FALSE and nothing is stored for
\* process_data.
ProcessRows(c, t, rows, failed) ==
    IF rows = <<>>
    THEN [cache |-> c, ok |-> FALSE, rows |-> {},
          anchor |-> c.salesorders.created, failed |-> failed]
    ELSE Only({[cache |-> [c EXCEPT !.process =
                              [created |-> t, val |-> table,
                               anchor |-> c.salesorders.created]],
                ok |-> TRUE, rows |-> table,
                anchor |-> c.salesorders.created, failed |-> failed]
               : table \in {GroupBySku(CleanRows(rows), c.products.val)}})

\* Lines 109-116; c is the cache after fetch_products() and fetch_salesorders().
ProcessOrders(c, t, filt, fail) ==
    LET sales == FilterSO(c.salesorders.val, filt)
    IN  Only({ProcessRows(c3, t, ShippedRows(c3, sales),
                          {o \in sales : ~Valid(c.shipped[o], t) /\ o \in fail})
              : c3 \in {WithShipped(c, t, sales, fail)}})

\* process_data() at instant t under st.cache_data.  [cache, ok, rows, anchor,
\* failed]: ok is FALSE when the body raises; anchor is the 'now' of the order
\* fetch behind the rows; failed are the orders whose request failed in this
\* call.
process_data(c, t, filt, fail) ==
    IF Valid(c.process, t)
    THEN [cache |-> c, ok |-> TRUE, rows |-> c.process.val,
          anchor |-> c.process.anchor, failed |-> {}]
    ELSE Only({ProcessOrders(c2, t, filt, fail)
               : c2 \in {WithSalesorders(WithProducts(c, t), t)}})

----------------------------------------------------------------------------
(* The rest of the script, lines 147-231 *)

\* fetch_full_salesorders() under st.cache_data, lines 150-154.
WithFull(c, t) ==
    IF Valid(c.full, t) THEN c
    ELSE [c EXCEPT !.full =
             [created |-> t, val |-> OrdersInRange(start_ts(t), end_ts(t))]]

\* str(item.get("sku", "")).strip(), lines 166 and 200
LineSku(o) == Strip(PyStr(orders[o].sku))

\* Lines 156-169 and 173: one (SKU, Month) row per product line of the orders.
extract_sku_dates(full) ==
    {[SKU |-> LineSku(o), Month |-> MonthOf(orders[o].date)] : o \in full}

\* Line 175: the rows kept for 'Active Months' in a run at instant t.
ActiveRows(full, t) ==
    {r \in extract_sku_dates(full) : r.Month >= six_months_ago_date(t)}

Min(a, b) == IF a < b THEN a ELSE b

\* Lines 177-180: nunique of Month per SKU, 0 for a SKU with no row, at most 6.
ActiveMonths(full, t, sku) ==
    Min(Cardinality({r.Month : r \in {x \in ActiveRows(full, t) : x.SKU = sku}}),
        NumBins)

\* Lines 192-209: the (SKU, Month, Units) rows whose month is one of the bins.
MonthlyRows(full, t) ==
    {[order |-> o, SKU |-> LineSku(o), Month |-> MonthOf(orders[o].date),
      Units |-> orders[o].units]
     : o \in {x \in full : \E j \in 1..NumBins :
                               month_bins(t)[j] = MonthOf(orders[x].date)}}

\* Lines 212-214: Units * Weight of a row, times 8.
Weighted8(r, t) == r.Units * Weight8Of(t, r.Month)

\* The sum of Weighted over a set of rows.
RECURSIVE SumWeighted8(_, _)
SumWeighted8(S, t) ==
    IF S = {} THEN 0
    ELSE LET x == CHOOSE y \in S : TRUE
         IN  Weighted8(x, t) + SumWeighted8(S \ {x}, t)

\* Lines 216-217: the sum of Weighted per SKU, as {[SKU, W8]}.
WeightedSummary(full, t) ==
    LET rows == MonthlyRows(full, t)
    IN  {[SKU |-> k,
          W8  |-> SumWeighted8({r \in rows : r.SKU = k}, t)]
         : k \in {r.SKU : r \in rows}}

\* Lines 221-222: the left merge on SKU and fillna(0), times 8.
W8Of(summary, sku) ==
    IF \E e \in summary : e.SKU = sku
    THEN (CHOOSE e \in summary : e.SKU = sku).W8
    ELSE 0

\* Lines 177-224: the columns added to one row of process_data's table.
FinalRow(r, full, t, summary) ==
    [SKU        |-> r.SKU,
     Name       |-> r.Name,
     Units      |-> r.Units,
     Real       |-> r.Real,
     Reservado  |-> r.Reservado,
     Disponible |-> r.Disponible,
     Lineal     |-> MediaLineal100(r.Units),
     Exponencial |-> MediaExponencial100(W8Of(summary, r.SKU)),
     Media      |-> Media100(MediaLineal100(r.Units),
                             MediaExponencial100(W8Of(summary, r.SKU))),
     Active     |-> ActiveMonths(full, t, r.SKU)]

\* Line 228: sort_values(by = 'Units (Last 6 Months)', ascending = False).
\* Rows come out of the groupby in ascending SKU order and equal units keep
\* that order.
Before(a, b) == a.Units > b.Units \/ (a.Units = b.Units /\ LexLess(a.SKU, b.SKU))

RECURSIVE SortRows(_)
SortRows(S) ==
    IF S = {} THEN <<>>
    ELSE LET first == CHOOSE a \in S : \A b \in S \ {a} : Before(a, b)
         IN  <<first>> \o SortRows(S \ {first})

NoUse ==
    [fetch |-> NoEntry, full |-> NoEntry, cutoff |-> NoEntry, bins |-> NoEntry,
     failed |-> {}, err |-> "none", sales |-> {}]

\* Lines 187-231: get_weighted_units_by_sku() under st.cache_data and the
\* final table; c is the cache after fetch_full_salesorders(), p the result of
\* process_data().
FinishRun(c, t, p) ==
    Only({[cache |-> c2, status |-> "ok",
           df |-> SortRows({FinalRow(r, c.full.val, t, c2.weighted.val)
                            : r \in p.rows}),
           used |-> [fetch |-> p.anchor,
                     full |-> c.full.created,
                     cutoff |-> t,
                     bins |-> c2.weighted.created,
                     failed |-> p.failed,
                     err |-> "none",
                     sales |-> {}]]
          : c2 \in {IF Valid(c.weighted, t) THEN c
                    ELSE [c EXCEPT !.weighted =
                             [created |-> t,
                              val |-> WeightedSummary(c.full.val, t),
                              anchor |-> c.full.created]]}})

\* Lines 147-231 after process_data() returned p.  An exception ends the
\* run: the cache keeps what was stored before it.
AfterProcess(t, filt, p) ==
    IF ~p.ok
    THEN [cache |-> p.cache, status |-> "error", df |-> <<>>,
          used |-> [NoUse EXCEPT !.fetch = p.anchor, !.failed = p.failed,
                                 !.err = "process_data",
                                 !.sales = FilterSO(p.cache.salesorders.val, filt)]]
    ELSE Only({IF c1.full.val = {}
               \* line 173: KeyError 'Date' on the column-less frame
               THEN [cache |-> c1, status |-> "error", df |-> <<>>,
                     used |-> [NoUse EXCEPT !.fetch = p.anchor,
                                            !.full = c1.full.created,
                                            !.failed = p.failed,
                                            !.err = "extract_sku_dates"]]
               ELSE FinishRun(c1, t, p)
               : c1 \in {WithFull(p.cache, t)}})

\* One run of the script at instant t with the selectbox at filt, from cache
\* c, the requests of the orders in fail failing.
RunScript(c, t, filt, fail) ==
    Only({AfterProcess(t, filt, p) : p \in {process_data(c, t, filt, fail)}})

----------------------------------------------------------------------------
(* The state machine of the report *)

MaxUnits == 1
MaxStock == 1
MaxAdvance == 7

\* The first run happens late in a month; a rerun two days later is in the
\* next month.
NowStart == 10 * DaysPerMonth + 28

\* Days between two runs: an immediate rerun, one two days later, and one
\* after more than ttl seconds.
AdvanceChoices == {0, 2, 7}

UnitChoices == 0..MaxUnits \cup {12}

\* Order dates: the first day of the fetch range (seven months back on the
\* calendar), one month back, and yesterday.
DateChoices == {start_ts(NowStart), MinusMonths(NowStart, 1), NowStart - 1}

\* (sku, name) of an order line, as the API delivers them.
LineKinds ==
    { <<Str(SkuA), Str(<<"W">>)>>,
      <<Str(<<" ", "A", " ">>), Str(<<"B">>)>>,
      <<Str(<<"n", "o", "n", "e">>), Str(<<"W">>)>>,
      <<NoneVal, Str(<<"5", " ", "W">>)>>,
      <<NoneVal, Str(<<"W">>)>>,
      <<Str(<<>>), Str(<<"5", " ", "W">>)>>,
      <<Str(<<"S">>), Str(<<"S">> \o Tail(Shipping))>> }

Order(so, date, kind, units, shipped) ==
    [so |-> so, date |-> date, sku |-> kind[1], name |-> kind[2],
     units |-> units, shipped |-> shipped]

NormIdle == [SKU |-> NoneVal, Name |-> NoneVal]

InitIdle ==
    /\ now = NowStart
    /\ filter_by_so = "Si"
    /\ cache = EmptyCache
    /\ status = "idle"
    /\ df = <<>>
    /\ used = NoUse
    /\ nin = NormIdle /\ nrec = NormIdle /\ nfirst = NormIdle /\ ncount = 0

\* Any two orders and any catalog stock of SKU "A" within the bounds; the
\* first order is an 'SO' order of SKU "A" that is not shipped yet.
InitCold ==
    /\ \E d1 \in DateChoices, u1 \in UnitChoices,
          so2 \in BOOLEAN, d2 \in DateChoices, k2 \in LineKinds,
          u2 \in UnitChoices, sh2 \in BOOLEAN :
          orders = [o \in OrderIds |->
                      IF o = "o1"
                      THEN Order(TRUE, d1, <<Str(SkuA), Str(<<"W">>)>>, u1, FALSE)
                      ELSE Order(so2, d2, k2, u2, sh2)]
    /\ stock \in (0 - 1)..MaxStock
    /\ InitIdle

\* The script body, lines 26-231, run once: the Refresh button (line 26),
\* the selectbox (line 29), 'now' (line 37) and everything below.
Rerun(refresh, filt, t, fail) ==
    \E r \in {RunScript(IF refresh THEN EmptyCache ELSE cache, t, filt, fail)} :
        /\ now' = t
        /\ filter_by_so' = filt
        /\ cache' = r.cache
        /\ status' = r.status
        /\ df' = r.df
        /\ used' = r.used
        /\ UNCHANGED <<orders, stock, normVars>>

\* The first run of a session: nothing is cached yet.
ColdRun ==
    /\ status = "idle"
    /\ \E filt \in {"Si", "No"}, adv \in {0, 2}, fail \in SUBSET OrderIds :
          Rerun(FALSE, filt, now + adv, fail)

SpecCold == InitCold /\ [][ColdRun]_vars

\* A session of reruns: an unshipped 'SO' order of SKU "A", and a second order,
\* possibly a web-shop order (no 'SO' docNumber), of SKU "A" or of a SKU
\* that is read off the product name.
Init ==
    /\ \E d1 \in {start_ts(NowStart), NowStart - 1}, u1 \in {MaxUnits + 1, 12},
          so2 \in BOOLEAN, d2 \in DateChoices,
          k2 \in {<<Str(SkuA), Str(<<"W">>)>>, <<NoneVal, Str(<<"5", " ", "W">>)>>} :
          orders = [o \in OrderIds |->
                      IF o = "o1"
                      THEN Order(TRUE, d1, <<Str(SkuA), Str(<<"W">>)>>, u1, FALSE)
                      ELSE Order(so2, d2, k2, 1, FALSE)]
    /\ stock \in (0 - 1)..MaxStock
    /\ InitIdle

\* Streamlit reruns the script on every interaction, at a later instant.
Next ==
    \E refresh \in BOOLEAN, filt \in {"Si", "No"}, adv \in AdvanceChoices,
       fail \in SUBSET OrderIds :
        /\ now + adv <= NowStart + MaxAdvance
        /\ Rerun(refresh, filt, now + adv, fail)

Spec == Init /\ [][Next]_vars

----------------------------------------------------------------------------
(* fix_sku_and_name on its own: every line item within the bounds *)

MaxNameLen == 4
MaxApplications == 2

NameAlphabet == {"0", "5", " ", "-", "W"}

NamePrefixes == {<<>>, <<"S", "K", "U">>, <<"R", "e", "f", ":">>}

NameBodies == UNION {[1..k -> NameAlphabet] : k \in 0..MaxNameLen}

RawNames == {Str(p \o b) : p \in NamePrefixes, b \in NameBodies} \cup {NoneVal}

RawSkus ==
    { NoneVal, IntVal(<<"0">>),
      Str(<<>>), Str(<<" ">>), Str(<<"0">>), Str(<<" ", "0", " ">>),
      Str(<<"n", "o", "n", "e">>), Str(<<"N", "a", "N">>),
      Str(SkuA), Str(<<" ", "A", " ">>), Str(<<"5">>) }

InitNorm ==
    /\ nin \in [SKU : RawSkus, Name : RawNames]
    /\ nrec = nin
    /\ nfirst = nin
    /\ ncount = 0
    /\ orders = [o \in OrderIds |->
                    Order(TRUE, NowStart, <<Str(SkuA), Str(<<"W">>)>>, 0, FALSE)]
    /\ stock = 0
    /\ now = NowStart
    /\ filter_by_so = "Si"
    /\ cache = EmptyCache
    /\ status = "idle"
    /\ df = <<>>
    /\ used = NoUse

\* df.apply(fix_sku_and_name, axis = 1) on one row (line 119), and again on
\* its result.
Normalize ==
    /\ ncount < MaxApplications
    /\ nrec' = fix_sku_and_name(nrec)
    /\ nfirst' = IF ncount = 0 THEN fix_sku_and_name(nrec) ELSE nfirst
    /\ ncount' = ncount + 1
    /\ UNCHANGED <<nin, pipeVars>>

SpecNorm == InitNorm /\ [][Normalize]_vars

----------------------------------------------------------------------------
(* Properties *)

Rows == {df[i] : i \in 1..Len(df)}

\* The orders a run at 'now' is given by the API.
Fetched == OrdersInRange(start_ts(now), end_ts(now))

\* The units of a SKU recorded in a month of the order stream.
RECURSIVE SumUnits(_)
SumUnits(S) ==
    IF S = {} THEN 0
    ELSE LET o == CHOOSE x \in S : TRUE IN orders[o].units + SumUnits(S \ {o})

UnitsInMonth(sku, month) ==
    SumUnits({o \in Fetched : LineSku(o) = sku /\ MonthOf(orders[o].date) = month})

\* The six trailing calendar months ending at the month of 'now', oldest first.
TrailingMonths == [j \in 1..6 |-> MonthOf(now) - (6 - j)]

\* C1: in every row of the report Stock Disponible is Stock Real minus Stock
\* Reservado, negative when more is reserved than on hand, and Stock Real is
\* the catalog's stock, 0 for a SKU the catalog does not hold.
C1_StockDisponibleExact ==
    status = "ok" =>
        \A r \in Rows :
            /\ r.Disponible = r.Real - r.Reservado
            /\ r.Real = (IF r.SKU = SkuA /\ stock >= 0 THEN stock ELSE 0)

\* C1 witness: a report with an oversold SKU of the catalog (more reserved
\* than on hand) next to a SKU the catalog does not hold.
C1_Witness ==
    /\ status = "ok"
    /\ \E r \in Rows : r.Real >= 1 /\ r.Reservado > r.Real /\ r.Disponible < 0
    /\ \E r \in Rows : r.SKU # SkuA /\ r.Real = 0

\* C2 (as claimed): in every row of a report, the units of the SKU's six month
\* buckets add up to the row's 'Units (Last 6 Months)'.
C2_BucketsSumToUnits ==
    status = "ok" =>
        \A r \in Rows :
            r.Units = SumSeq([j \in 1..6 |-> UnitsInMonth(r.SKU, TrailingMonths[j])])

\* The weighted sum of a SKU's monthly units, times 8.
ClaimW8(sku) ==
    SumSeq([j \in 1..6 |-> <<1, 1, 1, 1, 2, 2>>[j] * UnitsInMonth(sku, TrailingMonths[j])])

SummaryNow == cache.weighted.created
SummaryFetched ==
    OrdersInRange(start_ts(cache.weighted.anchor), end_ts(cache.weighted.anchor))

SummaryMonths == [j \in 1..6 |-> MonthOf(SummaryNow) - (6 - j)]

SummaryUnits(sku) ==
    [j \in 1..6 |->
        SumUnits({o \in SummaryFetched :
                    LineSku(o) = sku /\ MonthOf(orders[o].date) = SummaryMonths[j]})]

SummaryW8(sku) ==
    SumSeq([j \in 1..6 |-> <<1, 1, 1, 1, 2, 2>>[j] * SummaryUnits(sku)[j]])

C4_ActiveMonthsCountUnits ==
    status = "ok" =>
        \A r \in Rows :
            r.Active = Cardinality({j \in 1..6 :
                                      UnitsInMonth(r.SKU, TrailingMonths[j]) >= 1})

\* What C5 and C6 call a SKU that has to be recovered from the name: missing,
\* empty, or a placeholder.
NeedsRecovery(v) ==
    \/ v.tag = "none"
    \/ Strip(PyStr(v)) = <<>>
    \/ IsPlaceholderSku(Strip(PyStr(v)))

\* C5 (as claimed): fix_sku_and_name gives the trimmed SKU and name when the
\* SKU is usable, and otherwise (SKU missing, empty or a placeholder) the
\* digits and the trimmed remainder of the first pattern that matches the name.
C5_FixSkuAndNameAsClaimed ==
    ncount = 1 =>
        LET name == Strip(PyStr(nin.Name))
            i == FirstMatch(name)
        IN  IF ~NeedsRecovery(nin.SKU)
            THEN nrec = [SKU |-> Str(Strip(PyStr(nin.SKU))), Name |-> Str(name)]
            ELSE i # 0 => nrec = [SKU |-> Str(MatchPattern(i, name).g1),
                                  Name |-> Str(Strip(MatchPattern(i, name).g2))]

\* C6 (as claimed): no row of a report has an empty or placeholder SKU.
C6_NoPlaceholderRows ==
    status = "ok" =>
        \A r \in Rows : r.SKU # <<>> /\ ~IsPlaceholderSku(Strip(r.SKU))

\* C7 (as claimed): process_data does not abort when it has orders whose
\* shipped-items requests fail.
C7_NoAbortOnFetchFailure ==
    ~(status = "error" /\ used.err = "process_data" /\ used.sales # {})

\* C8 (as claimed): after a run in which no request failed, the report is the
\* one a run from an empty cache gives at the same instant with the same
\* selectbox value.
C8_CachedEqualsFresh ==
    (status # "idle" /\ used.failed = {}) =>
        \E f \in {RunScript(EmptyCache, now, filter_by_so, {})} :
            status = f.status /\ df = f.df

\* C9 (as claimed): the order fetch range, the active-months cutoff and the
\* month bins behind a report all come from the 'now' of that run.
C9_OneNowPerRun ==
    status = "ok" =>
        /\ used.fetch = used.cutoff
        /\ used.full = used.cutoff
        /\ used.bins = used.cutoff

\* C10 (as claimed): a second application of fix_sku_and_name changes nothing.
C10_Idempotent == ncount >= 2 => nrec = nfirst

\* C10 (amended): a second application of fix_sku_and_name changes nothing,
\* unless the SKU the first one gave is "0".
C10_IdempotentUnlessZero ==
    (ncount >= 2 /\ nfirst.SKU # Str(<<"0">>)) => nrec = nfirst

\* C10 witness: a SKU reconstructed from the name, normalised twice.
C10_Witness ==
    /\ ncount = 2
    /\ NeedsRecovery(nin.SKU)
    /\ nfirst.SKU # nin.SKU
    /\ nfirst.SKU # Str(<<"0">>)
    /\ nrec = nfirst

====
